---------------------------- MODULE Spec2Model ----------------------------
(***************************************************************************)
(* Model of internal/tickets/tickets.go: the CSV ticket parser             *)
(* (ExtractTicketData) and the aggregation functions over the parsed       *)
(* tickets (GetTotalTicketsByDestination, checkTimeBetweenLimits,          *)
(* GetCountByPeriod, AverageDestination).                                  *)
(*                                                                         *)
(* A Go string is a sequence of one-character strings.  A time.Time is a   *)
(* record [day, sec]: the date component as a day number (time.Parse with  *)
(* a layout that has no date yields day 0) and the second of that day.     *)
(* A nil slice is the empty sequence, a nil map the empty function.        *)
(***************************************************************************)
EXTENDS Integers, Sequences, FiniteSets, TLC

VARIABLES
    pc,           \* "start" before the call, the called function's name after it
    file,         \* the file os.ReadFile reads: [exists, content]
    records,      \* the field strings the file content was written from, line by line
    data,         \* the []Ticket argument of the aggregation functions
    destination,  \* the destination argument
    target,       \* checkTimeBetweenLimits' target
    start,        \* checkTimeBetweenLimits' start
    end,          \* checkTimeBetweenLimits' end
    out,          \* what the call returned
    incremented   \* GetCountByPeriod: the periods whose counter each ticket incremented

vars == <<pc, file, records, data, destination, target, start, end, out, incremented>>

(***************************************************************************)
(* Bounds of the model.                                                    *)
(***************************************************************************)
MaxLines == 2      \* lines of a tickets file
MaxTickets == 4    \* tickets of a slice handed to an aggregation function
MaxDay == 1        \* date components of a time.Time: days 0..MaxDay

(***************************************************************************)
(* Strings.                                                                *)
(***************************************************************************)
Digits == <<"0", "1", "2", "3", "4", "5", "6", "7", "8", "9">>

isDigit(s, i) == i <= Len(s) /\ \E d \in 1..10 : Digits[d] = s[i]

DigitVal(c) == (CHOOSE d \in 1..10 : Digits[d] = c) - 1

\* strings.Split(s, sep) for a one-character separator.
RECURSIVE Split(_, _)
Split(s, sep) ==
    IF \A i \in 1..Len(s) : s[i] # sep
    THEN <<s>>
    ELSE LET i == CHOOSE j \in 1..Len(s) :
                      s[j] = sep /\ \A k \in 1..(j - 1) : s[k] # sep
         IN  <<SubSeq(s, 1, i - 1)>> \o Split(SubSeq(s, i + 1, Len(s)), sep)

\* The value of a string of decimal digits.
RECURSIVE DecimalValue(_)
DecimalValue(s) ==
    IF s = <<>> THEN 0
    ELSE 10 * DecimalValue(SubSeq(s, 1, Len(s) - 1)) + DigitVal(s[Len(s)])

\* strconv.Atoi: an optional sign, then one or more decimal digits.  (Its range
\* error needs a string of 19 digits or more; the strings modelled are shorter.)
Atoi(s) ==
    LET signed == s # <<>> /\ s[1] \in {"+", "-"}
        body   == IF signed THEN Tail(s) ELSE s
        mag    == DecimalValue(body)
        neg    == signed /\ s[1] = "-"
    IN  IF body = <<>> \/ \E i \in 1..Len(body) : ~isDigit(body, i)
        THEN [err |-> TRUE, val |-> 0]
        ELSE [err |-> FALSE, val |-> IF neg THEN 0 - mag ELSE mag]

\* time's getnum(s, fixed): a number of two digits, or of one digit when the
\* second character is no digit and fixed is false.
GetNum(s, fixed) ==
    IF ~isDigit(s, 1) THEN [err |-> TRUE, val |-> 0, rest |-> s]
    ELSE IF ~isDigit(s, 2)
    THEN IF fixed THEN [err |-> TRUE, val |-> 0, rest |-> s]
         ELSE [err |-> FALSE, val |-> DigitVal(s[1]), rest |-> Tail(s)]
    ELSE [err |-> FALSE, val |-> 10 * DigitVal(s[1]) + DigitVal(s[2]),
          rest |-> SubSeq(s, 3, Len(s))]

\* time's skip(value, ":"): the literal colon of the layout.
SkipColon(s) ==
    IF s = <<>> \/ s[1] # ":" THEN [err |-> TRUE, rest |-> s]
    ELSE [err |-> FALSE, rest |-> Tail(s)]

NoTime == [day |-> 0, sec |-> 0]

\* time.Parse("15:04", s): an hour of one or two digits below 24, a colon, a
\* minute of exactly two digits below 60, and nothing after it.  The result
\* has no date: day 0.
ParseHourMinute(s) ==
    LET h == GetNum(s, FALSE)
        c == SkipColon(h.rest)
        m == GetNum(c.rest, TRUE)
    IN  IF h.err \/ h.val >= 24 \/ c.err \/ m.err \/ m.val >= 60 \/ m.rest # <<>>
        THEN [err |-> TRUE, val |-> NoTime]
        ELSE [err |-> FALSE, val |-> [day |-> 0, sec |-> h.val * 3600 + m.val * 60]]

\* time.Parse("15:04:05", s): as above, then a colon and a second of exactly
\* two digits below 60.
ParseHourMinuteSecond(s) ==
    LET h  == GetNum(s, FALSE)
        c  == SkipColon(h.rest)
        m  == GetNum(c.rest, TRUE)
        c2 == SkipColon(m.rest)
        sc == GetNum(c2.rest, TRUE)
    IN  IF h.err \/ h.val >= 24 \/ c.err \/ m.err \/ m.val >= 60
           \/ c2.err \/ sc.err \/ sc.val >= 60 \/ sc.rest # <<>>
        THEN [err |-> TRUE, val |-> NoTime]
        ELSE [err |-> FALSE,
              val |-> [day |-> 0, sec |-> h.val * 3600 + m.val * 60 + sc.val]]

(***************************************************************************)
(* ExtractTicketData.                                                      *)
(***************************************************************************)
Ticket(id, name, email, dest, departureTime, ticketPrice) ==
    [id |-> id, name |-> name, email |-> email, destination |-> dest,
     departureTime |-> departureTime, ticketPrice |-> ticketPrice]

\* TrimLastLine without the removal of the last blank line.
TrimLastLineKept(lines) == lines

\* "Remove the last line from the file (blank line) if exists".
TrimLastLine(lines) ==
    IF lines[Len(lines)] = <<>> THEN SubSeq(lines, 1, Len(lines) - 1) ELSE lines

\* The body of the loop over the lines: [kind, ticket].  Indexing fields
\* beyond its length is Go's index-out-of-range run-time panic.
ParseLine(line) ==
    LET fields == Split(line, ",")
        none   == Ticket(0, <<>>, <<>>, <<>>, NoTime, 0)
        id     == Atoi(fields[1])
        time   == ParseHourMinute(fields[5])
        price  == Atoi(fields[6])
    IN  IF id.err THEN [kind |-> "err", ticket |-> none]
        ELSE IF Len(fields) < 2 THEN [kind |-> "panic", ticket |-> none]
        ELSE IF Len(fields) < 3 THEN [kind |-> "panic", ticket |-> none]
        ELSE IF Len(fields) < 4 THEN [kind |-> "panic", ticket |-> none]
        ELSE IF Len(fields) < 5 THEN [kind |-> "panic", ticket |-> none]
        ELSE IF time.err THEN [kind |-> "err", ticket |-> none]
        ELSE IF Len(fields) < 6 THEN [kind |-> "panic", ticket |-> none]
        ELSE IF price.err THEN [kind |-> "err", ticket |-> none]
        ELSE [kind |-> "ok",
              ticket |-> Ticket(id.val, fields[2], fields[3], fields[4],
                                time.val, price.val)]

\* The loop over the lines, from the tickets appended so far.
RECURSIVE ExtractLoop(_, _)
ExtractLoop(lines, tickets) ==
    IF lines = <<>> THEN [kind |-> "ok", tickets |-> tickets]
    ELSE LET r == ParseLine(Head(lines))
         IN  IF r.kind # "ok" THEN [kind |-> r.kind, tickets |-> <<>>]
             ELSE ExtractLoop(Tail(lines), Append(tickets, r.ticket))

\* ExtractTicketData(filename): [kind, tickets], kind "ok" (nil error),
\* "err" (an error and a nil slice) or "panic".
ExtractTicketData(f) ==
    IF ~f.exists THEN [kind |-> "err", tickets |-> <<>>]
    ELSE LET lines == TrimLastLine(Split(f.content, "\n"))
         IN  IF Len(f.content) = 0 THEN [kind |-> "err", tickets |-> <<>>]
             ELSE ExtractLoop(lines, <<>>)

(***************************************************************************)
(* GetTotalTicketsByDestination and AverageDestination.                    *)
(***************************************************************************)
\* The loop over the tickets, from the total counted so far.
RECURSIVE DestinationLoop(_, _, _)
DestinationLoop(d, dest, totalTickets) ==
    IF d = <<>> THEN totalTickets
    ELSE DestinationLoop(Tail(d), dest,
                         IF Head(d).destination = dest
                         THEN totalTickets + 1 ELSE totalTickets)

\* GetTotalTicketsByDestination without the error for a destination not found.
GetTotalTicketsByDestinationSilentZero(d, dest) ==
    IF Len(d) = 0 THEN [total |-> 0, err |-> TRUE]
    ELSE [total |-> DestinationLoop(d, dest, 0), err |-> FALSE]

\* GetTotalTicketsByDestination(data, destination): [total, err].
GetTotalTicketsByDestination(d, dest) ==
    IF Len(d) = 0 THEN [total |-> 0, err |-> TRUE]
    ELSE LET totalTickets == DestinationLoop(d, dest, 0)
         IN  IF totalTickets = 0 THEN [total |-> 0, err |-> TRUE]
             ELSE [total |-> totalTickets, err |-> FALSE]

\* AverageDestination returning a percentage instead of a fraction.
AverageDestinationPercent(d, dest) ==
    LET r == GetTotalTicketsByDestination(d, dest)
    IN  IF r.err THEN [num |-> 0, den |-> 1, err |-> TRUE]
        ELSE [num |-> 100 * r.total, den |-> Len(d), err |-> FALSE]

\* AverageDestination(data, destination): [num, den, err], the float64 result
\* being the quotient num / den of two small integers.
AverageDestination(d, dest) ==
    LET r == GetTotalTicketsByDestination(d, dest)
    IN  IF r.err THEN [num |-> 0, den |-> 1, err |-> TRUE]
        ELSE [num |-> r.total, den |-> Len(d), err |-> FALSE]

(***************************************************************************)
(* checkTimeBetweenLimits and GetCountByPeriod.                            *)
(***************************************************************************)
\* time.Time's After and Before compare instants, date included.
After(t, u) == t.day > u.day \/ (t.day = u.day /\ t.sec > u.sec)

Before(t, u) == After(u, t)

\* checkTimeBetweenLimits with inclusive limits.
checkTimeBetweenLimitsInclusive(tg, st, en) ==
    IF After(st, en) THEN [result |-> FALSE, err |-> TRUE]
    ELSE IF ~Before(tg, st) /\ ~After(tg, en) THEN [result |-> TRUE, err |-> FALSE]
    ELSE [result |-> FALSE, err |-> FALSE]

\* checkTimeBetweenLimits(target, start, end): [result, err].
checkTimeBetweenLimits(tg, st, en) ==
    IF After(st, en) THEN [result |-> FALSE, err |-> TRUE]
    ELSE IF After(tg, st) /\ Before(tg, en) THEN [result |-> TRUE, err |-> FALSE]
    ELSE [result |-> FALSE, err |-> FALSE]

\* The morning's lower limit as the documented 7:00 instead of 6:59:59.
morningLowerLimitSeven == ParseHourMinuteSecond(<<"7", ":", "0", "0", ":", "0", "0">>).val

morningLowerLimit == ParseHourMinuteSecond(<<"6", ":", "5", "9", ":", "5", "9">>).val

morningUpperLimit == ParseHourMinuteSecond(<<"1", "3", ":", "0", "0", ":", "0", "0">>).val

eveningLowerLimit == ParseHourMinuteSecond(<<"1", "2", ":", "5", "9", ":", "5", "9">>).val

eveningUpperLimit == ParseHourMinuteSecond(<<"2", "0", ":", "0", "0", ":", "0", "0">>).val

\* The night's lower limit as the documented 20:00 instead of 19:59:59.
nightLowerLimitEight == ParseHourMinuteSecond(<<"2", "0", ":", "0", "0", ":", "0", "0">>).val

nightLowerLimit == ParseHourMinuteSecond(<<"1", "9", ":", "5", "9", ":", "5", "9">>).val

nightUpperLimit == ParseHourMinuteSecond(<<"2", "3", ":", "5", "9", ":", "5", "9">>).val

earlyMorningLowerLimit == ParseHourMinuteSecond(<<"0", ":", "0", "0", ":", "0", "0">>).val

earlyMorningUpperLimit == ParseHourMinuteSecond(<<"7", ":", "0", "0", ":", "0", "0">>).val

Periods == {"morning", "evening", "night", "early_morning"}

\* The body of the loop over the tickets: the four checks, then the four
\* increments.
PeriodStep(countByPeriod, ticket) ==
    LET departureTime == ticket.departureTime
        isMorning == checkTimeBetweenLimits(departureTime, morningLowerLimit,
                                            morningUpperLimit).result
        isEvening == checkTimeBetweenLimits(departureTime, eveningLowerLimit,
                                            eveningUpperLimit).result
        isNight == checkTimeBetweenLimits(departureTime, nightLowerLimit,
                                          nightUpperLimit).result
        isEarlyMorning == checkTimeBetweenLimits(departureTime, earlyMorningLowerLimit,
                                                 earlyMorningUpperLimit).result
        c1 == IF isMorning
              THEN [countByPeriod EXCEPT !["morning"] = @ + 1] ELSE countByPeriod
        c2 == IF isEvening THEN [c1 EXCEPT !["evening"] = @ + 1] ELSE c1
        c3 == IF isNight THEN [c2 EXCEPT !["night"] = @ + 1] ELSE c2
    IN  IF isEarlyMorning THEN [c3 EXCEPT !["early_morning"] = @ + 1] ELSE c3

RECURSIVE PeriodLoop(_, _)
PeriodLoop(d, countByPeriod) ==
    IF d = <<>> THEN countByPeriod
    ELSE PeriodLoop(Tail(d), PeriodStep(countByPeriod, Head(d)))

\* GetCountByPeriod(data): [count, err]; the nil map is the empty function.
GetCountByPeriod(d) ==
    LET countByPeriod == [p \in Periods |-> 0]
    IN  IF Len(d) = 0 THEN [count |-> <<>>, err |-> TRUE]
        ELSE [count |-> PeriodLoop(d, countByPeriod), err |-> FALSE]

\* The periods whose counter the loop body incremented for each ticket.
Incremented(d) ==
    [i \in 1..Len(d) |->
        {p \in Periods : PeriodStep([q \in Periods |-> 0], d[i])[p] = 1}]

(***************************************************************************)
(* Inputs.  A tickets file is written from field strings: the fields of a  *)
(* line joined by commas, the lines joined by newlines, with or without a  *)
(* final newline.                                                          *)
(***************************************************************************)
RECURSIVE Join(_, _)
Join(strs, sep) ==
    IF strs = <<>> THEN <<>>
    ELSE IF Len(strs) = 1 THEN strs[1]
    ELSE strs[1] \o <<sep>> \o Join(Tail(strs), sep)

RECURSIVE JoinFields(_)
JoinFields(lines) ==
    IF lines = <<>> THEN <<>>
    ELSE <<Join(Head(lines), ",")>> \o JoinFields(Tail(lines))

Content(lines, newline) ==
    Join(JoinFields(lines), "\n") \o (IF newline THEN <<"\n">> ELSE <<>>)

NameField == <<"T", " ", "M">>
EmailField == <<"t", "@", "s">>
Finland == <<"F", "i", "n", "l", "a", "n", "d">>
China == <<"C", "h", "i", "n", "a">>
LowerChina == <<"c", "h", "i", "n", "a">>
PriceField == <<"7", "8", "5">>

GoodIds == {<<"7">>, <<"-", "1", "2">>}
GoodTimes == {<<"7", ":", "0", "0">>, <<"0", "0", ":", "0", "5">>,
              <<"2", "3", ":", "5", "9">>}
BadInts == {<<"x">>, <<>>, <<"1", "a">>, <<"7", " ">>}
BadTimes == {<<"2", "4", ":", "0", "0">>, <<"7", ":", "5">>, <<"1", "2", ":", "6", "0">>,
             <<"1", "2", "0", "0">>, <<"7", ":", "0", "0", ":", "0", "0">>,
             <<"1", "2", "3", ":", "0", "0">>, <<>>}

BaseLine == <<(<<"7">>), NameField, EmailField, Finland, (<<"7", ":", "0", "0">>), PriceField>>

\* Lines of six fields that all convert.
GoodLines ==
    {<<id, NameField, EmailField, Finland, t, PriceField>> : id \in GoodIds, t \in GoodTimes}
    \cup {<<(<<"7">>), <<>>, EmailField, China, (<<"7", ":", "0", "0">>), PriceField>>}

\* Lines of six fields, one of which does not convert.
UnconvertibleLines ==
    {[BaseLine EXCEPT ![1] = b] : b \in BadInts}
    \cup {[BaseLine EXCEPT ![5] = b] : b \in BadTimes}
    \cup {[BaseLine EXCEPT ![6] = b] : b \in BadInts}

\* Lines of fewer than six fields (the blank line is one empty field).
ShortLines ==
    {SubSeq(BaseLine, 1, k) : k \in 1..5} \cup {<<b>> : b \in BadInts}

\* Lines of more than six fields.
LongLines == {BaseLine \o <<(<<"z">>)>>}

BlankLine == <<(<<>>)>>

AllLines == GoodLines \cup UnconvertibleLines \cup ShortLines \cup LongLines

RECURSIVE SeqsUpTo(_, _)
SeqsUpTo(S, n) ==
    IF n = 0 THEN {<<>>}
    ELSE LET shorter == SeqsUpTo(S, n - 1)
         IN  shorter \cup {Append(q, x) : q \in {r \in shorter : Len(r) = n - 1}, x \in S}

\* What a file was written from.  A last blank line without a final newline
\* is the same text as a final newline, and is written as the latter.
Written ==
    {[exists |-> FALSE, lines |-> <<>>, newline |-> FALSE]}
    \cup {w \in [exists : {TRUE}, lines : SeqsUpTo(AllLines, MaxLines), newline : BOOLEAN] :
             w.newline \/ w.lines = <<>> \/ w.lines[Len(w.lines)] # BlankLine}

Destinations == {China, Finland, LowerChina}

\* The second of the day hour:min:sec.
Clock(hour, min, sec) == [day |-> 0, sec |-> hour * 3600 + min * 60 + sec]

DepartureTimes ==
    {Clock(0, 0, 0), Clock(3, 0, 0), Clock(7, 0, 0), Clock(9, 0, 0),
     Clock(12, 59, 59), Clock(13, 0, 0), Clock(20, 0, 0), Clock(21, 30, 0),
     Clock(22, 30, 0), Clock(23, 59, 0)}

TicketsByDestination ==
    {Ticket(1, NameField, EmailField, d, Clock(17, 11, 0), 785) : d \in {China, Finland, LowerChina}}

TicketsByTime ==
    {Ticket(1, NameField, EmailField, China, t, 785) : t \in DepartureTimes}

Instants ==
    {[day |-> d, sec |-> c.sec] :
        d \in 0..MaxDay, c \in {Clock(16, 11, 0), Clock(17, 11, 0), Clock(18, 11, 0)}}

(***************************************************************************)
(* The calls.                                                              *)
(***************************************************************************)
\* A tickets file on disk (or none), before ExtractTicketData reads it.
Init ==
    /\ pc = "start"
    /\ records \in Written
    /\ file = [exists |-> records.exists,
               content |-> Content(records.lines, records.newline)]
    /\ data = <<>>
    /\ destination = <<>>
    /\ target = NoTime
    /\ start = NoTime
    /\ end = NoTime
    /\ out = <<>>
    /\ incremented = <<>>

CallExtractTicketData ==
    /\ pc = "start"
    /\ pc' = "ExtractTicketData"
    /\ out' = ExtractTicketData(file)
    /\ UNCHANGED <<file, records, data, destination, target, start, end, incremented>>

Next == CallExtractTicketData

Spec == Init /\ [][Next]_vars

\* A ticket slice and a destination, before a query by destination.
InitDest ==
    /\ pc = "start"
    /\ data \in SeqsUpTo(TicketsByDestination, MaxTickets)
    /\ destination \in Destinations \cup {<<>>}
    /\ file = [exists |-> FALSE, content |-> <<>>]
    /\ records = [exists |-> FALSE, lines |-> <<>>, newline |-> FALSE]
    /\ target = NoTime
    /\ start = NoTime
    /\ end = NoTime
    /\ out = <<>>
    /\ incremented = <<>>

CallGetTotalTicketsByDestination ==
    /\ pc = "start"
    /\ pc' = "GetTotalTicketsByDestination"
    /\ out' = GetTotalTicketsByDestination(data, destination)
    /\ UNCHANGED <<file, records, data, destination, target, start, end, incremented>>

CallAverageDestination ==
    /\ pc = "start"
    /\ pc' = "AverageDestination"
    /\ out' = AverageDestination(data, destination)
    /\ UNCHANGED <<file, records, data, destination, target, start, end, incremented>>

NextDest == CallGetTotalTicketsByDestination \/ CallAverageDestination

SpecDest == InitDest /\ [][NextDest]_vars

\* A ticket slice, before the count by period.
InitPeriod ==
    /\ pc = "start"
    /\ data \in SeqsUpTo(TicketsByTime, MaxTickets)
    /\ destination = <<>>
    /\ file = [exists |-> FALSE, content |-> <<>>]
    /\ records = [exists |-> FALSE, lines |-> <<>>, newline |-> FALSE]
    /\ target = NoTime
    /\ start = NoTime
    /\ end = NoTime
    /\ out = <<>>
    /\ incremented = <<>>

CallGetCountByPeriod ==
    /\ pc = "start"
    /\ pc' = "GetCountByPeriod"
    /\ out' = GetCountByPeriod(data)
    /\ incremented' = Incremented(data)
    /\ UNCHANGED <<file, records, data, destination, target, start, end>>

NextPeriod == CallGetCountByPeriod

SpecPeriod == InitPeriod /\ [][NextPeriod]_vars

\* Three times, before the window check.
InitTime ==
    /\ pc = "start"
    /\ target \in Instants
    /\ start \in Instants
    /\ end \in Instants
    /\ data = <<>>
    /\ destination = <<>>
    /\ file = [exists |-> FALSE, content |-> <<>>]
    /\ records = [exists |-> FALSE, lines |-> <<>>, newline |-> FALSE]
    /\ out = <<>>
    /\ incremented = <<>>

CallCheckTimeBetweenLimits ==
    /\ pc = "start"
    /\ pc' = "checkTimeBetweenLimits"
    /\ out' = checkTimeBetweenLimits(target, start, end)
    /\ UNCHANGED <<file, records, data, destination, target, start, end, incremented>>

NextTime == CallCheckTimeBetweenLimits

SpecTime == InitTime /\ [][NextTime]_vars

(***************************************************************************)
(* Properties of ExtractTicketData, under Spec.                            *)
(***************************************************************************)
\* The integer a well-formed integer field stands for.
IntOf(field) ==
    CASE field = <<"7">> -> 7
      [] field = <<"-", "1", "2">> -> 0 - 12
      [] field = PriceField -> 785

\* The time a well-formed HH:MM field stands for.
TimeOf(field) ==
    CASE field = <<"7", ":", "0", "0">> -> Clock(7, 0, 0)
      [] field = <<"0", "0", ":", "0", "5">> -> Clock(0, 5, 0)
      [] field = <<"2", "3", ":", "5", "9">> -> Clock(23, 59, 0)

Extracted == pc = "ExtractTicketData"

\* A field of the line that is converted and does not convert.
HasUnconvertibleField(line) ==
    \/ line[1] \in BadInts
    \/ Len(line) >= 5 /\ line[5] \in BadTimes
    \/ Len(line) >= 6 /\ line[6] \in BadInts

\* C1: a file of N >= 1 well-formed lines, with or without a final newline,
\* is extracted without error into exactly N tickets in file order, the i-th
\* ticket holding the converted fields of the i-th line; the final newline
\* makes no difference to the result.
ExtractsWellFormedFile ==
    (/\ Extracted
     /\ records.exists
     /\ Len(records.lines) >= 1
     /\ \A i \in 1..Len(records.lines) : records.lines[i] \in GoodLines)
    => /\ out.kind = "ok"
       /\ Len(out.tickets) = Len(records.lines)
       /\ \A i \in 1..Len(records.lines) :
            LET l == records.lines[i]
            IN  out.tickets[i] =
                    Ticket(IntOf(l[1]), l[2], l[3], l[4], TimeOf(l[5]), IntOf(l[6]))

\* C1's case: two different well-formed lines and a final newline, extracted.
ExtractsWellFormedFileWitness ==
    /\ Extracted
    /\ records.exists /\ records.newline
    /\ Len(records.lines) = 2
    /\ \A i \in 1..2 : records.lines[i] \in GoodLines
    /\ records.lines[1][1] # records.lines[2][1]
    /\ records.lines[1][5] # records.lines[2][5]
    /\ out.kind = "ok"
    /\ Len(out.tickets) = 2

\* C2: ExtractTicketData is all-or-nothing: a missing file, a zero-length
\* file or a field that does not convert (a blank line's too) gives an error
\* and a nil slice; an error never comes with tickets, and success never
\* with fewer tickets than lines.
ExtractAllOrNothing ==
    Extracted =>
        /\ (\/ ~records.exists
            \/ Len(file.content) = 0
            \/ \E i \in 1..Len(records.lines) : HasUnconvertibleField(records.lines[i]))
           => (out.kind = "err" /\ out.tickets = <<>>)
        /\ out.kind = "err" => out.tickets = <<>>
        /\ out.kind = "ok" => Len(out.tickets) = Len(records.lines)

\* All-or-nothing on the files whose lines all have six fields or more,
\* where the missing check of the number of fields does not interfere.
ExtractAllOrNothingSixFields ==
    (\A i \in 1..Len(records.lines) : Len(records.lines[i]) >= 6)
    => ExtractAllOrNothing

\* C3: a line that does not split into exactly six fields makes
\* ExtractTicketData return an error and no tickets.
ExtractValidatesFieldCount ==
    (/\ Extracted
     /\ records.exists
     /\ \E i \in 1..Len(records.lines) : Len(records.lines[i]) # 6)
    => (out.kind = "err" /\ out.tickets = <<>>)

(***************************************************************************)
(* Properties of the queries by destination, under SpecDest.               *)
(***************************************************************************)
\* The number of tickets of data whose destination is exactly dest.
Matching(dest) == Cardinality({i \in 1..Len(data) : data[i].destination = dest})

\* C4: GetTotalTicketsByDestination returns (0, error) for an empty slice and
\* for a slice without a ticket to the destination, and otherwise the exact
\* number k >= 1 of tickets to it and no error; never (0, no error).
TotalByDestinationExact ==
    pc = "GetTotalTicketsByDestination" =>
        /\ IF Matching(destination) = 0
           THEN out = [total |-> 0, err |-> TRUE]
           ELSE out = [total |-> Matching(destination), err |-> FALSE]
        /\ ~(out.total = 0 /\ ~out.err)

\* C4's case: two of four tickets match, another differs only in case.
TotalByDestinationExactWitness ==
    /\ pc = "GetTotalTicketsByDestination"
    /\ Len(data) = 4
    /\ destination = China
    /\ Matching(China) = 2
    /\ Matching(LowerChina) >= 1
    /\ out = [total |-> 2, err |-> FALSE]

\* C5: AverageDestination returns an error, with the fraction 0, exactly when
\* GetTotalTicketsByDestination does (empty slice, no match); otherwise no
\* error and the fraction matching / len(data), above 0 and at most 1 (one
\* half for 2 matches out of 4).
AverageDestinationFraction ==
    pc = "AverageDestination" =>
        /\ out.err = GetTotalTicketsByDestination(data, destination).err
        /\ out.err = (Matching(destination) = 0)
        /\ out.err => out.num = 0
        /\ ~out.err =>
             /\ out.num * Len(data) = Matching(destination) * out.den
             /\ out.num > 0 /\ out.den > 0
             /\ out.num <= out.den
        /\ (Len(data) = 4 /\ Matching(destination) = 2) => (2 * out.num = out.den)

\* C5's case: 2 matches out of 4 tickets.
AverageDestinationFractionWitness ==
    /\ pc = "AverageDestination"
    /\ Len(data) = 4
    /\ Matching(destination) = 2
    /\ ~out.err
    /\ 2 * out.num = out.den

(***************************************************************************)
(* Properties of checkTimeBetweenLimits, under SpecTime.                   *)
(***************************************************************************)
\* The instant of a time, in seconds.
Instant(t) == t.day * 86400 + t.sec

\* C7: checkTimeBetweenLimits returns (false, error) when start is after end,
\* and otherwise no error and start < target < end, both strict (so never
\* true when start = end).
CheckTimeStrictlyBetween ==
    pc = "checkTimeBetweenLimits" =>
        IF Instant(start) > Instant(end)
        THEN out = [result |-> FALSE, err |-> TRUE]
        ELSE /\ ~out.err
             /\ out.result = (Instant(start) < Instant(target)
                              /\ Instant(target) < Instant(end))
             /\ (target = start \/ target = end) => ~out.result

\* C7's case: the target on the upper limit of a proper window.
CheckTimeStrictlyBetweenWitness ==
    /\ pc = "checkTimeBetweenLimits"
    /\ Instant(start) < Instant(end)
    /\ target = end
    /\ out = [result |-> FALSE, err |-> FALSE]

\* C8: two calls of checkTimeBetweenLimits whose targets, starts and ends
\* agree on the time of day return the same, whatever their dates.
CheckTimeIgnoresDate ==
    pc = "checkTimeBetweenLimits" =>
        \A t2, s2, e2 \in Instants :
            (t2.sec = target.sec /\ s2.sec = start.sec /\ e2.sec = end.sec)
            => checkTimeBetweenLimits(t2, s2, e2) = out

(***************************************************************************)
(* Properties of GetCountByPeriod, under SpecPeriod.                       *)
(***************************************************************************)
Counted == pc = "GetCountByPeriod"

\* The second of the day of the i-th ticket's departure.
Departure(i) == data[i].departureTime.sec

\* The tickets whose departure is strictly between two times of the day.
Between(lower, upper) ==
    Cardinality({i \in 1..Len(data) : lower.sec < Departure(i) /\ Departure(i) < upper.sec})

SevenInNeitherPeriod ==
    Counted =>
        \A i \in 1..Len(data) :
            Departure(i) = Clock(7, 0, 0).sec
            => ("morning" \notin incremented[i] /\ "early_morning" \notin incremented[i])

\* C9 amended: for a ticket departing at exactly 07:00:00 GetCountByPeriod
\* increments the morning counter (its lower bound 06:59:59 is exclusive) and
\* not the early_morning counter (its upper bound 07:00:00 is exclusive).
SevenInMorningOnly ==
    Counted =>
        /\ \A i \in 1..Len(data) :
              Departure(i) = Clock(7, 0, 0).sec
              => ("morning" \in incremented[i] /\ "early_morning" \notin incremented[i])
        /\ (Len(data) = 1 /\ Departure(1) = Clock(7, 0, 0).sec)
           => (out.count["morning"] = 1 /\ out.count["early_morning"] = 0)

\* C9's case: a ticket departing at 07:00:00 among others, counted.
SevenInMorningOnlyWitness ==
    /\ Counted
    /\ Len(data) >= 2
    /\ \E i \in 1..Len(data) : Departure(i) = Clock(7, 0, 0).sec
    /\ \E i \in 1..Len(data) : Departure(i) = Clock(3, 0, 0).sec
    /\ out.count["morning"] >= 1
    /\ out.count["early_morning"] >= 1

RECURSIVE SumCounts(_, _)
SumCounts(count, ps) ==
    IF ps = {} THEN 0
    ELSE LET p == CHOOSE q \in ps : TRUE
         IN  count[p] + SumCounts(count, ps \ {p})

\* C10: for tickets departing on whole minutes 00:00..23:59 GetCountByPeriod
\* counts every ticket in exactly one period, so the four counts add up to
\* the number of tickets.
PeriodsPartitionDay ==
    (/\ Counted
     /\ data # <<>>
     /\ \A i \in 1..Len(data) : Departure(i) % 60 = 0)
    => /\ \A i \in 1..Len(data) : Cardinality(incremented[i]) = 1
       /\ SumCounts(out.count, Periods) = Len(data)

=============================================================================
